---- MODULE Spec2Model ----
(***************************************************************************)
(* claude-notes: transcript parser (src/src/claude_notes/parser.py), the   *)
(* time-range filter and the encoded-name matcher (claude_notes/cli.py,    *)
(* known here through spec.md and the tests).                              *)
(*                                                                         *)
(* A decoded JSON value is a tuple of strings whose head is its type tag:  *)
(*   <<"null">>  <<"false">>  <<"true">>  <<"dict">>                       *)
(*   <<"str", c1, ..., cn>>    a string of n characters                    *)
(*   <<"list", b1, ..., bn>>   a structured list of n content blocks       *)
(* A decoded line (a Python dict) is a function from key paths to values:  *)
(* <<"role">> is the top-level key role, <<"message">> holds the tag of    *)
(* the nested wrapper and <<"message", "role">> is message.role.           *)
(***************************************************************************)
EXTENDS Integers, Sequences, FiniteSets, TLC

VARIABLES
    file_lines,        \* the lines of the transcript file at file_path
    messages,          \* TranscriptParser.messages
    warnings,          \* line numbers of the "Warning: Failed to parse" prints
    pc,                \* "new" before TranscriptParser(...), "ready" after
    call,              \* the last operation applied and its arguments
    ret,               \* what that operation returned (or raised)
    oursEncoded,       \* fuzzyMatch: name from this tool's encoder
    referenceEncoded,  \* fuzzyMatch: name from the reference encoder
    conversations,     \* filterByRange: the conversations given
    time_range,        \* filterByRange: the selector
    now                \* filterByRange: the clock reading, in hours

vars == <<file_lines, messages, warnings, pc, call, ret,
          oursEncoded, referenceEncoded, conversations, time_range, now>>

parserVars == <<file_lines, messages, warnings>>
cliVars == <<oursEncoded, referenceEncoded, conversations, time_range, now>>

-----------------------------------------------------------------------------
(* Bounds of the model *)

MaxLines == 3
MaxWarmupLines == 2
MaxNameLen == 2
MaxConvs == 2

-----------------------------------------------------------------------------
(* Python values *)

PyNone == <<"null">>
PyFalse == <<"false">>
PyTrue == <<"true">>
DictTag == <<"dict">>
EmptyStr == <<"str">>
EmptyList == <<"list">>

Str(chars) == <<"str">> \o chars
Chars(v) == Tail(v)
IsStr(v) == Head(v) = "str"

\* bool(v) of a field's value: None, False, "" and [] are falsy
Truthy(v) == v \notin {PyNone, PyFalse, EmptyStr, EmptyList}

Ok(v) == [raised |-> FALSE, value |-> v]
Raise(e) == [raised |-> TRUE, value |-> e]

Whitespace == {" ", "\n", "\t", "\r"}

RECURSIVE lstrip(_)
lstrip(s) == IF s # <<>> /\ Head(s) \in Whitespace THEN lstrip(Tail(s)) ELSE s

RECURSIVE rstrip(_)
rstrip(s) ==
    IF s # <<>> /\ s[Len(s)] \in Whitespace
    THEN rstrip(SubSeq(s, 1, Len(s) - 1))
    ELSE s

\* str.strip()
strip(s) == rstrip(lstrip(s))

\* s[:n]
Prefix(s, n) == SubSeq(s, 1, IF Len(s) < n THEN Len(s) ELSE n)

\* s.split("\n")[0]
FirstLine(s) ==
    LET breaks == {i \in 1..Len(s) : s[i] = "\n"}
    IN  IF breaks = {} THEN s
        ELSE SubSeq(s, 1, (CHOOSE i \in breaks : \A j \in breaks : i <= j) - 1)

\* [i for i in range(n) if keep[i]]: the list comprehension's filter, by
\* position, in order
RECURSIVE SelectUpTo(_, _)
SelectUpTo(keep, n) ==
    IF n = 0 THEN <<>>
    ELSE LET before == SelectUpTo(keep, n - 1)
         IN  IF keep[n] THEN Append(before, n) ELSE before

SelectIndices(keep) == SelectUpTo(keep, Len(keep))

\* seq[n:]
DropFirst(seq, n) == SubSeq(seq, n + 1, Len(seq))

USER == Str(<<"u", "s", "e", "r">>)
ASSISTANT == Str(<<"a", "s", "s", "i", "s", "t", "a", "n", "t">>)
WARMUP == Str(<<"W", "a", "r", "m", "u", "p">>)
CONVERSATION_TITLE ==
    Str(<<"c", "o", "n", "v", "e", "r", "s", "a", "t", "i", "o", "n", "_",
          "t", "i", "t", "l", "e">>)
ELLIPSIS == <<".", ".", ".">>

-----------------------------------------------------------------------------
(* dict access *)

\* d.get(key, default)
Get(d, key, default) == IF <<key>> \in DOMAIN d THEN d[<<key>>] ELSE default

\* d.get("message", {}).get(key, default): AttributeError when the wrapper
\* is present and is no dict
NestedGet(d, key, default) ==
    LET wrapper == Get(d, "message", DictTag)
    IN  IF wrapper # DictTag THEN Raise("AttributeError")
        ELSE IF <<"message", key>> \in DOMAIN d THEN Ok(d[<<"message", key>>])
        ELSE Ok(default)

\* d.get(key) or d.get("message", {}).get(key)
GetOrNested(d, key) ==
    LET top == Get(d, key, PyNone)
    IN  IF Truthy(top) THEN Ok(top) ELSE NestedGet(d, key, PyNone)

\* m.get("isMeta", False) or m.get("message", {}).get("isMeta", False)
IsMetaEither(m) ==
    LET top == Get(m, "isMeta", PyFalse)
    IN  IF Truthy(top) THEN Ok(TRUE)
        ELSE LET nested == NestedGet(m, "isMeta", PyFalse)
             IN  IF nested.raised THEN nested ELSE Ok(Truthy(nested.value))

-----------------------------------------------------------------------------
(* parser.py: module functions *)

\* is_warmup_conversation comparing the content without content.strip()
is_warmup_conversation_unstripped(msgs) ==
    IF Len(msgs) < 1 THEN Ok(FALSE)
    ELSE
      LET first_msg == msgs[1]
          role == GetOrNested(first_msg, "role")
      IN  IF role.raised THEN role
          ELSE IF role.value # USER THEN Ok(FALSE)
          ELSE
            LET content == GetOrNested(first_msg, "content")
            IN  IF content.raised THEN content
                ELSE Ok(content.value = WARMUP)

is_warmup_conversation(msgs) ==
    IF Len(msgs) < 1 THEN Ok(FALSE)
    ELSE
      LET first_msg == msgs[1]
          role == GetOrNested(first_msg, "role")
      IN  IF role.raised THEN role
          ELSE IF role.value # USER THEN Ok(FALSE)
          ELSE
            LET content == GetOrNested(first_msg, "content")
            IN  IF content.raised THEN content
                ELSE IF IsStr(content.value)
                     THEN Ok(strip(Chars(content.value)) = Chars(WARMUP))
                     ELSE Ok(FALSE)

\* should_include_conversation skipping messages[1:] instead of messages[2:]
should_include_conversation_skip_one(msgs, min_messages, trim_warmup) ==
    IF msgs = <<>> THEN Ok(FALSE)
    ELSE
      LET warm == IF trim_warmup THEN is_warmup_conversation(msgs) ELSE Ok(FALSE)
      IN  IF warm.raised THEN warm
          ELSE
            LET messages_to_count == IF warm.value THEN DropFirst(msgs, 1) ELSE msgs
                meta == [i \in 1..Len(messages_to_count) |->
                            IsMetaEither(messages_to_count[i])]
                actual_messages ==
                    SelectIndices([i \in 1..Len(messages_to_count) |-> ~meta[i].value])
            IN  IF \E i \in 1..Len(messages_to_count) : meta[i].raised
                THEN Raise("AttributeError")
                ELSE Ok(Len(actual_messages) >= min_messages)

\* should_include_conversation comparing with == instead of >=
should_include_conversation_exact(msgs, min_messages, trim_warmup) ==
    IF msgs = <<>> THEN Ok(FALSE)
    ELSE
      LET warm == IF trim_warmup THEN is_warmup_conversation(msgs) ELSE Ok(FALSE)
      IN  IF warm.raised THEN warm
          ELSE
            LET messages_to_count == IF warm.value THEN DropFirst(msgs, 2) ELSE msgs
                meta == [i \in 1..Len(messages_to_count) |->
                            IsMetaEither(messages_to_count[i])]
                actual_messages ==
                    SelectIndices([i \in 1..Len(messages_to_count) |-> ~meta[i].value])
            IN  IF \E i \in 1..Len(messages_to_count) : meta[i].raised
                THEN Raise("AttributeError")
                ELSE Ok(Len(actual_messages) = min_messages)

should_include_conversation(msgs, min_messages, trim_warmup) ==
    IF msgs = <<>> THEN Ok(FALSE)
    ELSE
      LET warm == IF trim_warmup THEN is_warmup_conversation(msgs) ELSE Ok(FALSE)
      IN  IF warm.raised THEN warm
          ELSE
            LET messages_to_count == IF warm.value THEN DropFirst(msgs, 2) ELSE msgs
                meta == [i \in 1..Len(messages_to_count) |->
                            IsMetaEither(messages_to_count[i])]
                actual_messages ==
                    SelectIndices([i \in 1..Len(messages_to_count) |-> ~meta[i].value])
            IN  IF \E i \in 1..Len(messages_to_count) : meta[i].raised
                THEN Raise("AttributeError")
                ELSE Ok(Len(actual_messages) >= min_messages)

-----------------------------------------------------------------------------
(* parser.py: TranscriptParser *)

FilePath == [stem |-> "conversation", suffix |-> ".jsonl"]

EmptyDict == [k \in {} |-> PyNone]

\* A line of the file is blank (whitespace only), malformed, or the JSON
\* text of a value.
BlankLine == [text |-> "blank", value |-> EmptyDict]
MalformedLine == [text |-> "malformed", value |-> EmptyDict]
JsonLine(v) == [text |-> "json", value |-> v]

\* bool(line.strip())
StrippedNonEmpty(line) == line.text # "blank"

json_loads(line) ==
    IF line.text = "json" THEN Ok(line.value) ELSE Raise("JSONDecodeError")

\* _parse giving up at the first line json.loads rejects
RECURSIVE ParseUpToFirstFailure(_, _)
ParseUpToFirstFailure(lines, n) ==
    IF n = 0 THEN [messages |-> <<>>, warnings |-> <<>>]
    ELSE
      LET before == ParseUpToFirstFailure(lines, n - 1)
          line == lines[n]
      IN  IF before.warnings # <<>> \/ ~StrippedNonEmpty(line) THEN before
          ELSE LET data == json_loads(line)
               IN  IF data.raised
                   THEN [before EXCEPT !.warnings = Append(@, n)]
                   ELSE [before EXCEPT !.messages = Append(@, data.value)]

\* TranscriptParser._parse: the state after reading the first n lines
RECURSIVE ParseUpTo(_, _)
ParseUpTo(lines, n) ==
    IF n = 0 THEN [messages |-> <<>>, warnings |-> <<>>]
    ELSE
      LET before == ParseUpTo(lines, n - 1)
          line == lines[n]
      IN  IF ~StrippedNonEmpty(line) THEN before
          ELSE LET data == json_loads(line)
               IN  IF data.raised
                   THEN [before EXCEPT !.warnings = Append(@, n)]
                   ELSE [before EXCEPT !.messages = Append(@, data.value)]

_parse(lines) == ParseUpTo(lines, Len(lines))

\* Python's < on str: code-point order, over the characters timestamps use
CodePointOrder == <<"-", "0", "1", "2", "3", "4", "5", "6", "7", "8", "9",
                    ":", "T", "Z">>
CodePoint(c) == CHOOSE i \in 1..Len(CodePointOrder) : CodePointOrder[i] = c

RECURSIVE StrLess(_, _)
StrLess(a, b) ==
    IF b = <<>> THEN FALSE
    ELSE IF a = <<>> THEN TRUE
    ELSE IF Head(a) # Head(b) THEN CodePoint(Head(a)) < CodePoint(Head(b))
    ELSE StrLess(Tail(a), Tail(b))

\* min(timestamps) / max(timestamps) over a non-empty list of str
RECURSIVE PyMin(_)
PyMin(ts) ==
    IF Len(ts) = 1 THEN ts[1]
    ELSE LET m == PyMin(SubSeq(ts, 1, Len(ts) - 1))
             t == ts[Len(ts)]
         IN  IF StrLess(Chars(t), Chars(m)) THEN t ELSE m

RECURSIVE PyMax(_)
PyMax(ts) ==
    IF Len(ts) = 1 THEN ts[1]
    ELSE LET m == PyMax(SubSeq(ts, 1, Len(ts) - 1))
             t == ts[Len(ts)]
         IN  IF StrLess(Chars(m), Chars(t)) THEN t ELSE m

get_conversation_info(msgs) ==
    IF msgs = <<>> THEN <<>>
    ELSE
      LET stamped ==
              SelectIndices([i \in 1..Len(msgs) |-> <<"timestamp">> \in DOMAIN msgs[i]])
          timestamps == [j \in 1..Len(stamped) |-> msgs[stamped[j]][<<"timestamp">>]]
          actual_messages ==
              SelectIndices([i \in 1..Len(msgs) |->
                                ~Truthy(Get(msgs[i], "isMeta", PyFalse))])
          info == [file_name |-> <<FilePath.stem, FilePath.suffix>>,
                   message_count |-> Len(actual_messages),
                   total_entries |-> Len(msgs),
                   start_time |-> IF timestamps # <<>> THEN PyMin(timestamps) ELSE PyNone,
                   end_time |-> IF timestamps # <<>> THEN PyMax(timestamps) ELSE PyNone,
                   conversation_id |-> FilePath.stem]
      IN  IF <<"sessionId">> \in DOMAIN msgs[1]
          THEN info @@ [session_id |-> msgs[1][<<"sessionId">>]]
          ELSE info

get_messages(msgs) == msgs

get_messages_without_warmup(msgs) ==
    LET warm == is_warmup_conversation(msgs)
    IN  IF warm.raised THEN warm
        ELSE IF warm.value THEN Ok(DropFirst(msgs, 2))
        ELSE Ok(msgs)

SummaryMaxLen == 100

\* get_summary: the loop from record n on
RECURSIVE SummaryFrom(_, _)
SummaryFrom(msgs, n) ==
    IF n > Len(msgs) THEN PyNone
    ELSE
      LET msg == msgs[n]
      IN  IF Get(msg, "type", PyNone) = CONVERSATION_TITLE
          THEN Get(msg, "content", EmptyStr)
          ELSE IF Get(msg, "role", PyNone) = USER /\ Truthy(Get(msg, "content", PyNone))
                  /\ IsStr(msg[<<"content">>])
          THEN LET content == Chars(msg[<<"content">>])
               IN  Str(Prefix(FirstLine(content), SummaryMaxLen)
                       \o (IF Len(content) > SummaryMaxLen THEN ELLIPSIS ELSE <<>>))
          ELSE SummaryFrom(msgs, n + 1)

get_summary(msgs) == SummaryFrom(msgs, 1)

-----------------------------------------------------------------------------
(* The parser as a state machine: the constructor loads the file, then the
   caller applies the operations to the loaded list, in any order. *)

NoArgs(op) == [op |-> op, min_messages |-> 0, trim_warmup |-> FALSE]

MinMessagesValues == -1..(MaxLines + 1)

\* TranscriptParser.__init__
Construct ==
    /\ pc = "new"
    /\ LET loaded == _parse(file_lines)
       IN  /\ messages' = loaded.messages
           /\ warnings' = loaded.warnings
    /\ pc' = "ready"
    /\ call' = NoArgs("__init__")
    /\ ret' = Ok(PyNone)
    /\ UNCHANGED <<file_lines, cliVars>>

CallIsWarmup ==
    /\ pc = "ready"
    /\ call' = NoArgs("is_warmup_conversation")
    /\ ret' = is_warmup_conversation(messages)
    /\ UNCHANGED <<parserVars, pc, cliVars>>

CallShouldInclude ==
    /\ pc = "ready"
    /\ \E min_messages \in MinMessagesValues, trim_warmup \in BOOLEAN :
          /\ call' = [op |-> "should_include_conversation",
                      min_messages |-> min_messages, trim_warmup |-> trim_warmup]
          /\ ret' = should_include_conversation(messages, min_messages, trim_warmup)
    /\ UNCHANGED <<parserVars, pc, cliVars>>

CallGetConversationInfo ==
    /\ pc = "ready"
    /\ call' = NoArgs("get_conversation_info")
    /\ ret' = Ok(get_conversation_info(messages))
    /\ UNCHANGED <<parserVars, pc, cliVars>>

CallGetMessages ==
    /\ pc = "ready"
    /\ call' = NoArgs("get_messages")
    /\ ret' = Ok(get_messages(messages))
    /\ UNCHANGED <<parserVars, pc, cliVars>>

\* get_messages_without_warmup trimming self.messages in place
CallGetMessagesWithoutWarmupInPlace ==
    /\ pc = "ready"
    /\ call' = NoArgs("get_messages_without_warmup")
    /\ ret' = get_messages_without_warmup(messages)
    /\ messages' = IF ret'.raised THEN messages ELSE ret'.value
    /\ UNCHANGED <<file_lines, warnings, pc, cliVars>>

CallGetMessagesWithoutWarmup ==
    /\ pc = "ready"
    /\ call' = NoArgs("get_messages_without_warmup")
    /\ ret' = get_messages_without_warmup(messages)
    /\ UNCHANGED <<parserVars, pc, cliVars>>

CallGetSummary ==
    /\ pc = "ready"
    /\ call' = NoArgs("get_summary")
    /\ ret' = Ok(get_summary(messages))
    /\ UNCHANGED <<parserVars, pc, cliVars>>

Next ==
    \/ Construct
    \/ CallIsWarmup
    \/ CallShouldInclude
    \/ CallGetConversationInfo
    \/ CallGetMessages
    \/ CallGetMessagesWithoutWarmup
    \/ CallGetSummary

\* Sequences over S of length at most n
SeqsUpTo(S, n) == UNION {[1..k -> S] : k \in 0..n}

CliIdle ==
    /\ oursEncoded = <<>>
    /\ referenceEncoded = <<>>
    /\ conversations = <<>>
    /\ time_range = "none"
    /\ now = 0

\* A parser about to be constructed on a file of at most n of the given lines
InitOnFile(Lines, n) ==
    /\ file_lines \in SeqsUpTo(Lines, n)
    /\ messages = <<>>
    /\ warnings = <<>>
    /\ pc = "new"
    /\ call = NoArgs("none")
    /\ ret = Ok(PyNone)
    /\ CliIdle

Top(key, v) == <<key>> :> v
Nested(key, v) == (<<"message">> :> DictTag) @@ (<<"message", key>> :> v)

Block == <<"list", "text">>
HI == Str(<<"H", "i">>)
PADDED_WARMUP == Str(<<" ">> \o Chars(WARMUP) \o <<"\n">>)

-----------------------------------------------------------------------------
(* Transcripts for the inclusion filter: records as the data model describes
   them (a message wrapper, when present, is a mapping), with the warmup
   prompt flat and nested, ordinary records, and meta records flagged at the
   top level and under the wrapper. *)

FilterRecords ==
    { Top("role", USER) @@ Top("content", WARMUP),
      Nested("role", USER) @@ Nested("content", PADDED_WARMUP),
      Top("role", USER) @@ Top("content", HI),
      Nested("role", ASSISTANT) @@ Nested("content", Block),
      Top("role", USER) @@ Top("content", WARMUP) @@ Top("isMeta", PyTrue),
      Top("isMeta", PyFalse) @@ Nested("role", USER) @@ Nested("content", HI)
          @@ Nested("isMeta", PyTrue) }

Init == InitOnFile({JsonLine(r) : r \in FilterRecords}, MaxLines)

Spec == Init /\ [][Next]_vars

-----------------------------------------------------------------------------
(* Transcripts for warmup detection: first records that are, nearly are, or
   are not the warmup prompt. *)

WarmupRecords ==
    { \* the warmup prompt, flat, nested, and padded with whitespace
      Top("role", USER) @@ Top("content", WARMUP),
      Nested("role", USER) @@ Nested("content", WARMUP),
      Top("role", USER) @@ Top("content", PADDED_WARMUP),
      \* not the prompt: inner whitespace, another role, no role, structured content
      Top("role", USER) @@ Top("content", Str(<<"W", "a", "r", "m", " ", "u", "p">>)),
      Top("role", ASSISTANT) @@ Nested("role", USER) @@ Top("content", WARMUP),
      Top("content", WARMUP),
      Top("role", USER) @@ Top("content", Block) @@ Nested("content", WARMUP),
      Nested("role", ASSISTANT) @@ Nested("content", Block),
      \* empty top-level values beside nested ones
      Top("role", EmptyStr) @@ Nested("role", USER) @@ Nested("content", WARMUP),
      Top("role", USER) @@ Top("content", EmptyList) @@ Nested("content", WARMUP),
      Top("role", USER) @@ Top("content", EmptyStr) }

InitWarmup == InitOnFile({JsonLine(r) : r \in WarmupRecords}, MaxWarmupLines)

SpecWarmup == InitWarmup /\ [][Next]_vars

-----------------------------------------------------------------------------
(* Files with blank and malformed lines among the records *)

LoadLines ==
    { BlankLine, MalformedLine,
      JsonLine(Top("role", USER) @@ Top("content", HI)),
      JsonLine(Nested("role", ASSISTANT) @@ Nested("content", Block)) }

InitLoad == InitOnFile(LoadLines, MaxLines)

SpecLoad == InitLoad /\ [][Next]_vars

-----------------------------------------------------------------------------
(* Transcripts for get_conversation_info: timestamps, isMeta and sessionId
   at the top level and under the wrapper. *)

Stamp(digits) == Str(<<"2", "0", "2", "5", "-">> \o digits)

InfoRecords ==
    { Top("role", USER) @@ Top("content", HI),
      Top("timestamp", Stamp(<<"1", "0">>)) @@ Nested("role", USER),
      Top("timestamp", Stamp(<<"2">>)) @@ Top("isMeta", PyTrue),
      Top("timestamp", Stamp(<<"1">>)) @@ Top("sessionId", Str(<<"s">>)),
      Nested("timestamp", Stamp(<<"0">>)) @@ Nested("role", ASSISTANT),
      Nested("isMeta", PyTrue) @@ Top("timestamp", Stamp(<<"1", "1">>)) }

InitInfo == InitOnFile({JsonLine(r) : r \in InfoRecords}, MaxLines)

SpecInfo == InitInfo /\ [][Next]_vars

-----------------------------------------------------------------------------
(* Transcripts for get_summary: a title record, and user records whose
   content is short, exactly SummaryMaxLen long, longer, of several lines,
   or structured. *)

Repeat(c, n) == [i \in 1..n |-> c]

SummaryRecords ==
    { Top("type", CONVERSATION_TITLE) @@ Top("content", Str(<<"T">>)),
      Top("role", USER) @@ Top("content", HI),
      Top("role", USER) @@ Top("content", Str(Repeat("x", SummaryMaxLen))),
      Top("role", USER) @@ Top("content", Str(Repeat("x", SummaryMaxLen + 1))),
      Top("role", USER) @@ Top("content", Str(<<"a", "b", "\n", "c">>)),
      Top("role", USER)
          @@ Top("content", Str(<<"H", "i", "\n">> \o Repeat("y", SummaryMaxLen))),
      Top("role", USER) @@ Top("content", Block),
      Top("role", ASSISTANT) @@ Top("content", HI) }

InitSummary == InitOnFile({JsonLine(r) : r \in SummaryRecords}, MaxLines)

SpecSummary == InitSummary /\ [][Next]_vars

-----------------------------------------------------------------------------
(* cli.py: is_safe_char and fuzzy_match_encoded_names, after spec.md 4.5.
   A name is a sequence of characters; "U+00E9" stands for the one
   character e-acute. *)

AsciiLetters ==
    {"a", "b", "c", "d", "e", "f", "g", "h", "i", "j", "k", "l", "m",
     "n", "o", "p", "q", "r", "s", "t", "u", "v", "w", "x", "y", "z",
     "A", "B", "C", "D", "E", "F", "G", "H", "I", "J", "K", "L", "M",
     "N", "O", "P", "Q", "R", "S", "T", "U", "V", "W", "X", "Y", "Z"}
AsciiDigits == {"0", "1", "2", "3", "4", "5", "6", "7", "8", "9"}
DASH == "-"

is_safe_char(c) == c \in AsciiLetters \/ c \in AsciiDigits \/ c = DASH

Matched(n) == [matches |-> TRUE, unknown_count |-> n]
\* spec.md gives no count with a mismatch: (false, _)
NoMatch == [matches |-> FALSE, unknown_count |-> 0]

\* the matcher testing for an unsafe character before testing for equality
RECURSIVE FuzzyFromSafetyFirst(_, _, _, _)
FuzzyFromSafetyFirst(ours, reference, i, unknown_count) ==
    IF i > Len(ours) THEN Matched(unknown_count)
    ELSE LET a == ours[i]
             b == reference[i]
         IN  IF ~is_safe_char(a)
             THEN IF b = DASH
                  THEN FuzzyFromSafetyFirst(ours, reference, i + 1, unknown_count + 1)
                  ELSE NoMatch
             ELSE IF a = b
                  THEN FuzzyFromSafetyFirst(ours, reference, i + 1, unknown_count)
                  ELSE NoMatch

\* the matcher taking a dash in the reference name as ambiguous whatever the
\* character on our side is
RECURSIVE FuzzyFromAnyDash(_, _, _, _)
FuzzyFromAnyDash(ours, reference, i, unknown_count) ==
    IF i > Len(ours) THEN Matched(unknown_count)
    ELSE LET a == ours[i]
             b == reference[i]
         IN  IF a = b THEN FuzzyFromAnyDash(ours, reference, i + 1, unknown_count)
             ELSE IF b = DASH
             THEN FuzzyFromAnyDash(ours, reference, i + 1, unknown_count + 1)
             ELSE NoMatch

\* step 2: the positions from i on, unknown_count ambiguous ones so far
RECURSIVE FuzzyFrom(_, _, _, _)
FuzzyFrom(ours, reference, i, unknown_count) ==
    IF i > Len(ours) THEN Matched(unknown_count)
    ELSE LET a == ours[i]
             b == reference[i]
         IN  IF a = b THEN FuzzyFrom(ours, reference, i + 1, unknown_count)
             ELSE IF is_safe_char(a) THEN NoMatch
             ELSE IF b = DASH THEN FuzzyFrom(ours, reference, i + 1, unknown_count + 1)
             ELSE NoMatch

fuzzy_match_encoded_names(ours, reference) ==
    IF Len(ours) # Len(reference) THEN NoMatch
    ELSE FuzzyFrom(ours, reference, 1, 0)

CallFuzzyMatch ==
    /\ pc = "cli"
    /\ call' = NoArgs("fuzzy_match_encoded_names")
    /\ ret' = Ok(fuzzy_match_encoded_names(oursEncoded, referenceEncoded))
    /\ UNCHANGED <<parserVars, pc, cliVars>>

NameChars == {"a", "Z", "7", DASH, "_", "U+00E9"}

ParserIdle ==
    /\ file_lines = <<>>
    /\ messages = <<>>
    /\ warnings = <<>>
    /\ pc = "cli"
    /\ call = NoArgs("none")
    /\ ret = Ok(PyNone)

InitFuzzy ==
    /\ ParserIdle
    /\ oursEncoded \in SeqsUpTo(NameChars, MaxNameLen)
    /\ referenceEncoded \in SeqsUpTo(NameChars, MaxNameLen)
    /\ conversations = <<>>
    /\ time_range = "none"
    /\ now = 0

SpecFuzzy == InitFuzzy /\ [][CallFuzzyMatch]_vars

-----------------------------------------------------------------------------
(* cli.py: filter_by_past, after spec.md 4.4.  Times are whole hours; a
   conversation is a mapping with info (the file it came from) and, when it
   has one, start_time. *)

Selectors == {"none", "hour", "day", "week", "month", "year"}

window(selector) ==
    CASE selector = "hour" -> 1
      [] selector = "day" -> 24
      [] selector = "week" -> 7 * 24
      [] selector = "month" -> 30 * 24
      [] selector = "year" -> 365 * 24

\* the filter keeping only what started after the cutoff
RECURSIVE KeepAfter(_, _, _)
KeepAfter(convs, cutoff, n) ==
    IF n = 0 THEN <<>>
    ELSE LET before == KeepAfter(convs, cutoff, n - 1)
             c == convs[n]
         IN  IF "start_time" \in DOMAIN c /\ c.start_time > cutoff
             THEN Append(before, c)
             ELSE before

filter_by_past_strictly_after(convs, selector, clock) ==
    IF selector = "none" THEN convs
    ELSE KeepAfter(convs, clock - window(selector), Len(convs))

\* the conversations among the first n that have a start_time >= cutoff
RECURSIVE KeepSince(_, _, _)
KeepSince(convs, cutoff, n) ==
    IF n = 0 THEN <<>>
    ELSE LET before == KeepSince(convs, cutoff, n - 1)
             c == convs[n]
         IN  IF "start_time" \in DOMAIN c /\ c.start_time >= cutoff
             THEN Append(before, c)
             ELSE before

filter_by_past(convs, selector, clock) ==
    IF selector = "none" THEN convs
    ELSE KeepSince(convs, clock - window(selector), Len(convs))

CallFilterByPast ==
    /\ pc = "cli"
    /\ call' = NoArgs("filter_by_past")
    /\ ret' = Ok(filter_by_past(conversations, time_range, now))
    /\ UNCHANGED <<parserVars, pc, cliVars>>

\* hours between a conversation's start and now: around each window's edge,
\* and one start in the future
Ages == {-1, 0, 1, 2, 24, 25, 7 * 24, 7 * 24 + 1, 30 * 24, 30 * 24 + 1,
         365 * 24, 365 * 24 + 1}

Clocks == {20000, 500000}

Undated(i) == [info |-> i]
Dated(i, t) == [info |-> i, start_time |-> t]

\* what is known of a start: nothing, or its age
Starts == {[known |-> FALSE, age |-> 0]} \cup {[known |-> TRUE, age |-> a] : a \in Ages}

InitTime ==
    /\ ParserIdle
    /\ oursEncoded = <<>>
    /\ referenceEncoded = <<>>
    /\ now \in Clocks
    /\ time_range \in Selectors
    /\ \E starts \in SeqsUpTo(Starts, MaxConvs) :
          conversations = [i \in 1..Len(starts) |->
                              IF starts[i].known
                              THEN Dated(i, now - starts[i].age)
                              ELSE Undated(i)]

SpecTime == InitTime /\ [][CallFilterByPast]_vars

-----------------------------------------------------------------------------
(* Transcripts whose records carry a message wrapper that is no mapping
   ("message": null), beside records with a proper wrapper and without one. *)

NullWrapper == <<"message">> :> PyNone

MalformedRecords ==
    { NullWrapper,
      NullWrapper @@ Top("role", USER) @@ Top("content", WARMUP),
      NullWrapper @@ Top("isMeta", PyTrue),
      Top("role", USER) @@ Top("content", WARMUP),
      Nested("role", ASSISTANT) @@ Nested("content", Block) }

InitMalformed == InitOnFile({JsonLine(r) : r \in MalformedRecords}, MaxLines)

SpecMalformed == InitMalformed /\ [][Next]_vars

-----------------------------------------------------------------------------
(* Readings of a record that the claims are stated in *)

TopValue(m, key) == IF <<key>> \in DOMAIN m THEN m[<<key>>] ELSE PyNone
NestedValue(m, key) ==
    IF <<"message", key>> \in DOMAIN m THEN m[<<"message", key>>] ELSE PyNone

\* isMeta is true at the top level or under message
EffectiveIsMeta(m) == TopValue(m, "isMeta") = PyTrue \/ NestedValue(m, "isMeta") = PyTrue

NonMetaCount(s) == Cardinality({i \in 1..Len(s) : ~EffectiveIsMeta(s[i])})

\* s without its first two elements
WithoutFirstTwo(s) == [i \in 1..(IF Len(s) > 2 THEN Len(s) - 2 ELSE 0) |-> s[i + 2]]

\* the top-level value when the key is present, else the nested one
EffectivePresent(m, key) ==
    IF <<key>> \in DOMAIN m THEN m[<<key>>] ELSE NestedValue(m, key)

\* the top-level value when it is present and not empty, else the nested one
EffectiveNonEmpty(m, key) ==
    IF TopValue(m, key) \notin {PyNone, PyFalse, EmptyStr, EmptyList}
    THEN TopValue(m, key)
    ELSE NestedValue(m, key)

\* the characters are "Warmup" between runs of whitespace
IsPaddedWarmup(chars) ==
    \E i \in 0..Len(chars) : \E j \in i..Len(chars) :
        /\ SubSeq(chars, i + 1, j) = <<"W", "a", "r", "m", "u", "p">>
        /\ \A k \in 1..i : chars[k] \in {" ", "\n", "\t", "\r"}
        /\ \A k \in (j + 1)..Len(chars) : chars[k] \in {" ", "\n", "\t", "\r"}

IsWarmupPrompt(role, content) ==
    /\ role = <<"str", "u", "s", "e", "r">>
    /\ Head(content) = "str"
    /\ IsPaddedWarmup(Tail(content))

-----------------------------------------------------------------------------
(* C1: shouldInclude(messages, minMessages, trimWarmup) is true iff messages
   is non-empty and the number of records whose isMeta is true neither at the
   top level nor under message, counted after dropping the first two records
   when trimWarmup is true and isWarmup(messages) holds, is >= minMessages;
   an empty list is never included. *)
C1_ShouldInclude ==
    call.op = "should_include_conversation" =>
        /\ ~ret.raised
        /\ ret.value =
              (/\ messages # <<>>
               /\ NonMetaCount(IF call.trim_warmup /\ is_warmup_conversation(messages).value
                               THEN WithoutFirstTwo(messages)
                               ELSE messages) >= call.min_messages)

\* a warmup conversation with records after the exchange, left out only
\* because the warmup exchange was trimmed before counting
C1_Witness ==
    /\ call.op = "should_include_conversation"
    /\ call.trim_warmup
    /\ call.min_messages >= 1
    /\ Len(messages) > 2
    /\ is_warmup_conversation(messages).value
    /\ NonMetaCount(messages) >= call.min_messages
    /\ ~ret.raised
    /\ ret.value = FALSE

-----------------------------------------------------------------------------
(* C2 as amended: isWarmup(messages) is true iff messages is non-empty, the
   first record's effective role equals "user" and its effective content is a
   string equal to "Warmup" after trimming surrounding whitespace, where the
   effective value of a field is the top-level value when that is present and
   not empty (not null, false, "" or an empty list) and the nested
   message value otherwise; no record but the first influences the result. *)
C2_IsWarmupNonEmptyFirst ==
    call.op = "is_warmup_conversation" =>
        /\ ~ret.raised
        /\ ret.value =
              (/\ messages # <<>>
               /\ IsWarmupPrompt(EffectiveNonEmpty(messages[1], "role"),
                                 EffectiveNonEmpty(messages[1], "content")))

\* a first record whose top-level role is the empty string and whose nested
\* role and content are the warmup prompt, followed by another record
C2_Witness ==
    /\ call.op = "is_warmup_conversation"
    /\ Len(messages) >= 2
    /\ TopValue(messages[1], "role") = EmptyStr
    /\ ~ret.raised
    /\ ret.value = TRUE

(* C2 as stated: the effective role and content are the top-level value when
   the record has one, else the nested message value. *)
C2_IsWarmupTopLevelFirst ==
    call.op = "is_warmup_conversation" =>
        /\ ~ret.raised
        /\ ret.value =
              (/\ messages # <<>>
               /\ IsWarmupPrompt(EffectivePresent(messages[1], "role"),
                                 EffectivePresent(messages[1], "content")))

-----------------------------------------------------------------------------
(* C3: loading yields exactly the decoded values of the non-empty lines that
   decode, in file order, without reordering or deduplication; a line that
   fails to decode gives one diagnostic and is skipped, and the decodable
   lines after it are still loaded. *)
DecodableLines == {i \in 1..Len(file_lines) : file_lines[i].text = "json"}
UndecodableLines == {i \in 1..Len(file_lines) : file_lines[i].text = "malformed"}

C3_LoadKeepsDecodableLines ==
    pc = "ready" =>
        /\ Len(messages) = Cardinality(DecodableLines)
        /\ \A i \in DecodableLines :
              messages[Cardinality({j \in DecodableLines : j <= i})] = file_lines[i].value
        /\ Len(warnings) = Cardinality(UndecodableLines)
        /\ \A i \in UndecodableLines : \E k \in 1..Len(warnings) : warnings[k] = i

\* a file with a malformed line and a blank line before two equal records
C3_Witness ==
    /\ pc = "ready"
    /\ Len(file_lines) = 3
    /\ file_lines[1].text = "malformed"
    /\ file_lines[2].text = "json"
    /\ file_lines[3] = file_lines[2]
    /\ Len(messages) = 2
    /\ warnings = <<1>>

-----------------------------------------------------------------------------
(* C4: getConversationInfo's message_count is the number of records for
   which neither the top-level isMeta nor the nested message.isMeta is true
   (the count shouldInclude uses with trimWarmup false), and total_entries is
   the number of records. *)
C4_MessageCountSkipsMetaAtEitherLevel ==
    (call.op = "get_conversation_info" /\ messages # <<>>) =>
        /\ ret.value.message_count = NonMetaCount(messages)
        /\ ret.value.total_entries = Len(messages)

-----------------------------------------------------------------------------
(* C5: when some record has type "conversation_title", getSummary returns the
   content of the first such record, also when user records with string
   content come earlier in the file. *)
TitleRecords == {i \in 1..Len(messages) : TopValue(messages[i], "type") = CONVERSATION_TITLE}

C5_TitleBeforeUserMessage ==
    (call.op = "get_summary" /\ TitleRecords # {}) =>
        LET first == CHOOSE i \in TitleRecords : \A j \in TitleRecords : i <= j
        IN  ret.value = TopValue(messages[first], "content")

-----------------------------------------------------------------------------
(* C6: when getSummary falls back to the first user record with string
   content, the result is the first line of that content cut to at most 100
   characters, with "..." appended iff that first line is longer than 100
   characters. *)
UserTextRecords ==
    {i \in 1..Len(messages) :
        /\ TopValue(messages[i], "role") = USER
        /\ Head(TopValue(messages[i], "content")) = "str"}

\* the characters before the first line break
LineOne(chars) ==
    LET n == CHOOSE k \in 0..Len(chars) :
                 /\ \A j \in 1..k : chars[j] # "\n"
                 /\ k < Len(chars) => chars[k + 1] = "\n"
    IN  SubSeq(chars, 1, n)

C6_EllipsisIffFirstLineCut ==
    (call.op = "get_summary" /\ TitleRecords = {} /\ UserTextRecords # {}) =>
        LET first == CHOOSE i \in UserTextRecords : \A j \in UserTextRecords : i <= j
            line == LineOne(Tail(messages[first][<<"content">>]))
        IN  ret.value = IF Len(line) > 100
                        THEN <<"str">> \o SubSeq(line, 1, 100) \o <<".", ".", ".">>
                        ELSE <<"str">> \o line

-----------------------------------------------------------------------------
(* C7: for a non-empty loaded sequence, start_time and end_time are the
   lexical minimum and maximum of the timestamps of the records that carry
   one, a record's timestamp being looked up at the top level first and then
   under message; both are absent iff no record carries one at either
   place, and start_time <= end_time when present. *)
LexLeq(a, b) ==
    \/ a = b
    \/ \E k \in 1..(Len(b)) :
          /\ k - 1 <= Len(a)
          /\ SubSeq(a, 1, k - 1) = SubSeq(b, 1, k - 1)
          /\ \/ Len(a) = k - 1
             \/ Len(a) >= k /\ a[k] # b[k] /\ CodePoint(a[k]) < CodePoint(b[k])

EffectiveTimestamps ==
    {EffectivePresent(messages[i], "timestamp") : i \in 1..Len(messages)} \ {PyNone}

C7_TimesFromEitherLevel ==
    (call.op = "get_conversation_info" /\ messages # <<>>) =>
        IF EffectiveTimestamps = {}
        THEN ret.value.start_time = PyNone /\ ret.value.end_time = PyNone
        ELSE /\ ret.value.start_time \in EffectiveTimestamps
             /\ ret.value.end_time \in EffectiveTimestamps
             /\ \A t \in EffectiveTimestamps :
                   /\ LexLeq(Tail(ret.value.start_time), Tail(t))
                   /\ LexLeq(Tail(t), Tail(ret.value.end_time))

-----------------------------------------------------------------------------
(* C8: fuzzyMatch returns matches = true iff the names have equal length and
   at every position the characters are equal or ours is unsafe (no ASCII
   letter, ASCII digit or dash) and the reference has the dash; when matches
   is true, unknownCount is the number of positions of the second kind; when
   the lengths differ the result is (false, 0). *)
Collapsed(i) ==
    /\ oursEncoded[i] \notin AsciiLetters \cup AsciiDigits \cup {"-"}
    /\ referenceEncoded[i] = "-"

C8_FuzzyMatchCharacterised ==
    call.op = "fuzzy_match_encoded_names" =>
        /\ ret.value.matches =
              (/\ Len(oursEncoded) = Len(referenceEncoded)
               /\ \A i \in 1..Len(oursEncoded) :
                     oursEncoded[i] = referenceEncoded[i] \/ Collapsed(i))
        /\ ret.value.matches =>
              ret.value.unknown_count =
                  Cardinality({i \in 1..Len(oursEncoded) : Collapsed(i)})
        /\ Len(oursEncoded) # Len(referenceEncoded) =>
              ret.value = [matches |-> FALSE, unknown_count |-> 0]

\* a match over an equal position and a collapsed one
C8_Witness ==
    /\ call.op = "fuzzy_match_encoded_names"
    /\ Len(oursEncoded) = Len(referenceEncoded)
    /\ \E i, j \in 1..Len(oursEncoded) :
          /\ oursEncoded[i] = referenceEncoded[i]
          /\ oursEncoded[j] # referenceEncoded[j]
    /\ ret.value.matches
    /\ ret.value.unknown_count = 1

-----------------------------------------------------------------------------
(* C9: fuzzyMatch(s, s) = (true, 0) for every string s, with unsafe
   characters in it or empty. *)
C9_FuzzyMatchReflexive ==
    (call.op = "fuzzy_match_encoded_names" /\ oursEncoded = referenceEncoded) =>
        ret.value = [matches |-> TRUE, unknown_count |-> 0]

\* a name with an unsafe character matched against itself
C9_Witness ==
    /\ call.op = "fuzzy_match_encoded_names"
    /\ oursEncoded = referenceEncoded
    /\ \E i \in 1..Len(oursEncoded) : oursEncoded[i] \in {"_", "U+00E9"}
    /\ ret.value.matches

-----------------------------------------------------------------------------
(* C10: filterByRange returns an order-preserving sub-sequence of its input:
   the whole input with selector none, and otherwise exactly the
   conversations that have a start_time >= now - window(selector), window
   being 1h, 24h, 7d, 30d, 365d; a conversation without start_time is left
   out. *)
InRange(c) ==
    \/ time_range = "none"
    \/ /\ "start_time" \in DOMAIN c
       /\ \/ time_range = "hour" /\ now - c.start_time <= 1
          \/ time_range = "day" /\ now - c.start_time <= 24
          \/ time_range = "week" /\ now - c.start_time <= 168
          \/ time_range = "month" /\ now - c.start_time <= 720
          \/ time_range = "year" /\ now - c.start_time <= 8760

KeptPositions == {i \in 1..Len(conversations) : InRange(conversations[i])}

C10_FilterByRangeSubsequence ==
    call.op = "filter_by_past" =>
        /\ Len(ret.value) = Cardinality(KeptPositions)
        /\ \A i \in KeptPositions :
              ret.value[Cardinality({j \in KeptPositions : j <= i})] = conversations[i]

\* selector month: an undated conversation is dropped, one that started
\* exactly 30 days ago is kept
C10_Witness ==
    /\ call.op = "filter_by_past"
    /\ time_range = "month"
    /\ Len(conversations) = 2
    /\ "start_time" \notin DOMAIN conversations[1]
    /\ "start_time" \in DOMAIN conversations[2]
    /\ conversations[2].start_time = now - 720
    /\ ret.value = <<conversations[2]>>

-----------------------------------------------------------------------------
(* C11: isWarmup, shouldInclude, getConversationInfo and getSummary never
   raise on a sequence of decoded records: a missing field, and a message
   wrapper that is missing or is no mapping (null), count as absent and the
   operation returns a value. *)
C11_NeverRaises ==
    call.op \in {"is_warmup_conversation", "should_include_conversation",
                 "get_conversation_info", "get_summary"} =>
        ~ret.raised

-----------------------------------------------------------------------------
(* C12: get_messages_without_warmup returns the loaded records without their
   first two when isWarmup holds for them (the rest in order, two fewer when
   there are at least two), returns the loaded records unchanged otherwise,
   and leaves alone what get_messages returns: after any calls the parser
   still holds, and get_messages still returns, the records as loaded. *)
LoadedRecords ==
    [k \in 1..Cardinality(DecodableLines) |->
        file_lines[CHOOSE i \in DecodableLines :
                      Cardinality({j \in DecodableLines : j <= i}) = k].value]

C12_WithoutWarmupDropsFirstTwo ==
    /\ pc = "ready" => messages = LoadedRecords
    /\ call.op = "get_messages" => ret = Ok(LoadedRecords)
    /\ call.op = "get_messages_without_warmup" =>
          /\ ~ret.raised
          /\ ret.value = IF is_warmup_conversation(LoadedRecords).value
                         THEN WithoutFirstTwo(LoadedRecords)
                         ELSE LoadedRecords
          /\ (is_warmup_conversation(LoadedRecords).value /\ Len(LoadedRecords) >= 2) =>
                /\ Len(ret.value) = Len(LoadedRecords) - 2
                /\ \A i \in 1..Len(ret.value) : ret.value[i] = LoadedRecords[i + 2]

\* a warmup conversation of three records trimmed to its third record
C12_Witness ==
    /\ call.op = "get_messages_without_warmup"
    /\ Len(messages) = 3
    /\ is_warmup_conversation(messages) = Ok(TRUE)
    /\ ret = Ok(<<messages[3]>>)
    /\ messages[3] # messages[1]

-----------------------------------------------------------------------------
(* C13: shouldInclude is monotone in both parameters: a conversation
   included with threshold k is included with every threshold k' <= k, and a
   conversation included with warmup trimming on is included with it off. *)
C13_ShouldIncludeMonotone ==
    (call.op = "should_include_conversation" /\ ret = Ok(TRUE)) =>
        /\ \A k \in MinMessagesValues :
              k <= call.min_messages =>
                 should_include_conversation(messages, k, call.trim_warmup) = Ok(TRUE)
        /\ call.trim_warmup =>
              should_include_conversation(messages, call.min_messages, FALSE) = Ok(TRUE)

\* a warmup conversation included with trimming on and a threshold of 1
C13_Witness ==
    /\ call.op = "should_include_conversation"
    /\ call.trim_warmup
    /\ call.min_messages = 1
    /\ is_warmup_conversation(messages) = Ok(TRUE)
    /\ ret = Ok(TRUE)
    /\ should_include_conversation(messages, 2, TRUE) = Ok(FALSE)
    /\ should_include_conversation(messages, 2, FALSE) = Ok(TRUE)

====
